---------------------------- MODULE Spec2Model ----------------------------
(***************************************************************************)
(* A model of w3af_api_client.connection.Connection: the bootstrap         *)
(* handshake (__init__ / can_access_api / get_version), the request        *)
(* primitive send_request with its status-code-to-exception mapping, and   *)
(* the listing operation get_scans.  The network is a stub transport that  *)
(* answers each call with a response (status code + raw body) or raises a  *)
(* transport exception; the model counts its invocations.                  *)
(*                                                                         *)
(* Logging (set_verbose) and the session headers (configure_requests) do   *)
(* not influence any outcome and are left out.  Python 3 semantics are     *)
(* modelled where the two supported interpreters differ (%s of bytes).     *)
(*                                                                         *)
(* Text (Python str) is a sequence of one-character strings.  Raw bodies   *)
(* (Python bytes) are sequences of byte tokens: a printable ASCII byte is  *)
(* its character, and "<LF>", "<E9>" stand for the bytes 0x0A and 0xE9.    *)
(***************************************************************************)
EXTENDS Integers, Sequences, FiniteSets, TLC

VARIABLES
    conn,            \* "none" | "connection": what the last Connection(...) gave the caller
    transportCalls,  \* invocations of session.get / .delete / .post seen by the stub transport
    validSends,      \* send_request calls issued with a method in {GET, POST, DELETE}
    last             \* the last operation: its inputs, the stub's answer and its outcome

vars == <<conn, transportCalls, validSends, last>>

---------------------------------------------------------------------------
(* Bounds of the model *)

\* Transport invocations allowed before only network-free steps remain.
MaxCalls == 3

---------------------------------------------------------------------------
(* Program constants *)

HTTP_OK == 200
HTTP_BAD_REQUEST == 400
HTTP_FORBIDDEN == 403
HTTP_NOT_FOUND == 404
EXCERPT_LEN == 20

\* utils.constants.ISSUE_URL, imported by connection.py; its text is not used.
ISSUE_URL == <<"I", "S", "S", "U", "E", "_", "U", "R", "L">>

---------------------------------------------------------------------------
(* Text *)

Min(a, b) == IF a < b THEN a ELSE b

Take(s, n) == SubSeq(s, 1, Min(n, Len(s)))

Drop(s, n) == SubSeq(s, Min(n, Len(s)) + 1, Len(s))

\* Python's `needle in hay` for two str values: substring.
IsSubstring(needle, hay) ==
    \E i \in 0..(Len(hay) - Len(needle)) :
        SubSeq(hay, i + 1, i + Len(needle)) = needle

DigitChar == <<"0", "1", "2", "3", "4", "5", "6", "7", "8", "9">>

\* '%s' % n for a non-negative int: its decimal digits.
RECURSIVE DecimalStr(_)
DecimalStr(n) ==
    IF n < 10 THEN <<DigitChar[n + 1]>>
    ELSE DecimalStr(n \div 10) \o <<DigitChar[(n % 10) + 1]>>

\* The str literals the code uses as dictionary keys.
KeyText ==
    [version |-> <<"v", "e", "r", "s", "i", "o", "n">>,
     message |-> <<"m", "e", "s", "s", "a", "g", "e">>,
     items   |-> <<"i", "t", "e", "m", "s">>,
     id      |-> <<"i", "d">>,
     status  |-> <<"s", "t", "a", "t", "u", "s">>]

\* Insertion order of the keys of the modelled objects.
KeyOrder == <<"version", "message", "items", "id", "status">>

---------------------------------------------------------------------------
(* JSON values, as json.loads / response.json() builds them *)

JNull == [kind |-> "null"]
JNum(n) == [kind |-> "number", n |-> n]
JStr(s) == [kind |-> "string", s |-> s]
JArr(e) == [kind |-> "array", elems |-> e]
JObj(f) == [kind |-> "object", fields |-> f]

\* json.dumps with the default separators (", " and ": ").
RECURSIVE Dumps(_), DumpElems(_), DumpFields(_, _)
Dumps(v) ==
    CASE v.kind = "null"   -> <<"n", "u", "l", "l">>
      [] v.kind = "number" -> DecimalStr(v.n)
      [] v.kind = "string" -> <<"\"">> \o v.s \o <<"\"">>
      [] v.kind = "array"  -> <<"[">> \o DumpElems(v.elems) \o <<"]">>
      [] v.kind = "object" -> <<"{">> \o DumpFields(v.fields, KeyOrder) \o <<"}">>

DumpElems(es) ==
    IF es = <<>> THEN <<>>
    ELSE IF Len(es) = 1 THEN Dumps(es[1])
    ELSE Dumps(es[1]) \o <<",", " ">> \o DumpElems(Tail(es))

DumpFields(f, keys) ==
    IF keys = <<>> THEN <<>>
    ELSE IF Head(keys) \notin DOMAIN f THEN DumpFields(f, Tail(keys))
    ELSE LET rest == DumpFields(f, Tail(keys))
             this == <<"\"">> \o KeyText[Head(keys)] \o <<"\"", ":", " ">>
                         \o Dumps(f[Head(keys)])
         IN  IF rest = <<>> THEN this ELSE this \o <<",", " ">> \o rest

---------------------------------------------------------------------------
(* What the stub server can answer *)

TextGone == <<"g", "o", "n", "e">>
TextRelease == <<"1", ".", "7", ".", "2">>
TextRunning == <<"R", "u", "n">>
TextStopped == <<"S", "t", "o", "p">>

\* The JSON documents the stub server serves.
JsonValues ==
    { JObj([version |-> JStr(TextRelease)]),
      JObj([version |-> JNull]),
      JObj([version |-> JStr(TextRelease), message |-> JStr(TextGone)]),
      JObj([message |-> JStr(TextGone)]),
      JObj([message |-> JStr(<<>>)]),
      JObj([message |-> JNull]),
      JObj(<<>>),
      JObj([items |-> JArr(<<JObj([id |-> JNum(1), status |-> JStr(TextRunning)]),
                             JObj([id |-> JNum(2), status |-> JStr(TextStopped)])>>)]),
      JObj([items |-> JArr(<<JObj([id |-> JNum(2), status |-> JStr(TextStopped)]),
                             JObj([id |-> JNum(1), status |-> JStr(TextRunning)])>>)]),
      JObj([items |-> JArr(<<>>)]),
      JObj([items |-> JNull]),
      JObj([items |-> JArr(<<JObj([id |-> JNum(1)])>>)]),
      JObj([items |-> JArr(<<JNum(7)>>)]),
      JObj([items |-> JNum(7)]),
      JArr(<<>>),
      JArr(<<JStr(KeyText.version)>>),
      JStr(KeyText.version),
      JStr(KeyText.message),
      JNum(7),
      JNull }

\* Raw bodies that are not JSON: an HTML page longer than the excerpt, a second one
\* that differs from it only after the excerpt, a short one, and an empty body.
HtmlHead ==
    <<"<", "!", "D", "O", "C", "T", "Y", "P", "E", " ", "h", "t", "m", "l", ">",
      "<LF>", "\\", "<E9>", "<", "p">>

NonJsonContents ==
    { HtmlHead \o <<">", "a">>,
      HtmlHead \o <<">", "b", "c">>,
      <<"<", "h", "t", "m", "l", ">">>,
      <<"\\", "<E9>">>,
      <<>> }

\* The wire form of each JSON document (ASCII, so bytes and characters coincide).
JsonDocs == { [content |-> Dumps(v), json |-> v] : v \in JsonValues }

Contents == { d.content : d \in JsonDocs } \cup NonJsonContents

StatusCodes == {HTTP_OK, HTTP_BAD_REQUEST, HTTP_FORBIDDEN, HTTP_NOT_FOUND, 500}

Responses == [status_code : StatusCodes, content : Contents]

\* requests raises these from session.get/.delete/.post; the text is str(e).
TransportErrors ==
    { [kind |-> "ConnectionError", msg |-> <<"r", "e", "f", "u", "s", "e", "d">>],
      [kind |-> "Timeout", msg |-> <<"t", "i", "m", "e", "d">>] }

NoResponse == [status_code |-> 0, content |-> <<>>]
NoError == [kind |-> "", msg |-> <<>>]

\* One answer of the stub transport: a response, or an exception raised by the call.
TransportOutcomes ==
    { [tag |-> "response", response |-> r, error |-> NoError] : r \in Responses }
        \cup { [tag |-> "exception", response |-> NoResponse, error |-> e] :
                 e \in TransportErrors }

NotInvoked == [tag |-> "none", response |-> NoResponse, error |-> NoError]

---------------------------------------------------------------------------
(* Library conversions the code relies on *)

Invalid == [kind |-> "invalid"]

\* response.json(): the document whose wire form the body is; Invalid stands for the
\* ValueError it raises on anything else.
ResponseJson(response) ==
    LET docs == { d \in JsonDocs : d.content = response.content }
    IN  IF docs = {} THEN Invalid ELSE (CHOOSE d \in docs : TRUE).json

\* repr() of one byte inside a Python 3 bytes literal.
ByteRepr(b) ==
    CASE b = "\\"   -> <<"\\", "\\">>
      [] b = "<LF>" -> <<"\\", "n">>
      [] b = "<E9>" -> <<"\\", "x", "e", "9">>
      [] OTHER      -> <<b>>

RECURSIVE BytesBody(_)
BytesBody(bs) == IF bs = <<>> THEN <<>> ELSE ByteRepr(Head(bs)) \o BytesBody(Tail(bs))

\* '%s' % bytes under Python 3: the bytes literal b'...'.
BytesStr(bs) == <<"b", "'">> \o BytesBody(bs) \o <<"'">>

\* container.get(key, None) on a dict; None is JSON null.
DictGet(d, key) == IF key \in DOMAIN d.fields THEN d.fields[key] ELSE JNull

\* Only a dict has .get: on a list, str, int or None the call raises AttributeError.
HasGet(v) == v.kind = "object"

\* Python's `key in container`: "true" | "false" | "TypeError" (int and None are
\* not containers).  A dict is searched by key, a list by element, a str by substring.
PyIn(key, container) ==
    CASE container.kind = "object" ->
            IF key \in DOMAIN container.fields THEN "true" ELSE "false"
      [] container.kind = "array" ->
            IF \E i \in 1..Len(container.elems) : container.elems[i] = JStr(KeyText[key])
            THEN "true" ELSE "false"
      [] container.kind = "string" ->
            IF IsSubstring(KeyText[key], container.s) THEN "true" ELSE "false"
      [] OTHER -> "TypeError"

\* Python's container[key] for a str key: "ok" | "KeyError" | "TypeError".
PySubscript(container, key) ==
    CASE container.kind = "object" ->
            IF key \in DOMAIN container.fields THEN "ok" ELSE "KeyError"
      [] OTHER -> "TypeError"

RECURSIVE KeysOf(_, _)
KeysOf(f, keys) ==
    IF keys = <<>> THEN <<>>
    ELSE IF Head(keys) \in DOMAIN f
         THEN <<JStr(KeyText[Head(keys)])>> \o KeysOf(f, Tail(keys))
         ELSE KeysOf(f, Tail(keys))

\* What `for x in container` walks over; int is not iterable (TypeError).
PyIterable(container) == container.kind \in {"array", "string", "object"}

PyIter(container) ==
    CASE container.kind = "array"  -> container.elems
      [] container.kind = "string" -> [i \in 1..Len(container.s) |-> JStr(<<container.s[i]>>)]
      [] container.kind = "object" -> KeysOf(container.fields, KeyOrder)

---------------------------------------------------------------------------
(* Outcomes of an operation: a returned value or a raised exception *)

NoValue == [kind |-> "novalue"]

Msg(template, args) == [template |-> template, args |-> args]

Returned(value, calls) ==
    [tag |-> "return", value |-> value, kind |-> "", msg |-> NoValue, by |-> "",
     calls |-> calls]

Raised(kind, msg, by, calls) ==
    [tag |-> "raise", value |-> NoValue, kind |-> kind, msg |-> msg, by |-> by,
     calls |-> calls]

---------------------------------------------------------------------------
(* Connection.send_request *)

HTTP_METHODS == {"GET", "DELETE", "POST"}

\* Faulty variant: two entries of the table exchanged.
API_EXCEPTIONS_Swapped ==
    (HTTP_BAD_REQUEST :> "BadRequestException")
        @@ (HTTP_FORBIDDEN :> "NotFoundException")
        @@ (HTTP_NOT_FOUND :> "ForbiddenException")

\* Faulty variant: server errors promoted to a mapped failure.
API_EXCEPTIONS_With500 ==
    (HTTP_BAD_REQUEST :> "BadRequestException")
        @@ (HTTP_FORBIDDEN :> "ForbiddenException")
        @@ (HTTP_NOT_FOUND :> "NotFoundException")
        @@ (500 :> "APIException")

API_EXCEPTIONS ==
    (HTTP_BAD_REQUEST :> "BadRequestException")
        @@ (HTTP_FORBIDDEN :> "ForbiddenException")
        @@ (HTTP_NOT_FOUND :> "NotFoundException")

\* Faulty variant: the body is not cut to its first bytes.
BodyExcerptWhole(content) == BytesStr(content)

\* response.content[:20], formatted with %s.
BodyExcerpt(content) == BytesStr(Take(content, EXCERPT_LEN))

\* Faulty variant: the HTTP call is made before the method is looked at.
TransportInvocationsBeforeCheck(method, t) == 1

\* Faulty variant: a call that raised is tried once more.
TransportInvocationsRetry(method, t) ==
    IF method \in HTTP_METHODS THEN (IF t.tag = "exception" THEN 2 ELSE 1) ELSE 0

\* Lines 111-123: the number of session.get/.delete/.post calls made for `method`.
TransportInvocations(method, t) == IF method \in HTTP_METHODS THEN 1 ELSE 0

\* Lines 140-155: the status-code mapping, applied to a parsed body.
ErrorHandling(status_code, json_data, calls) ==
    IF status_code \in DOMAIN API_EXCEPTIONS
    THEN IF ~HasGet(json_data)
         THEN Raised("AttributeError", Msg("no attribute 'get'", <<>>), "send_request", calls)
         ELSE LET error == DictGet(json_data, "message")
                  exception_klass == API_EXCEPTIONS[status_code]
              IN  IF error # JNull
                  THEN Raised(exception_klass, error, "send_request", calls)
                  ELSE Raised("APIException",
                              Msg("REST API service did not return the expected message attribute",
                                  <<DecimalStr(status_code), ISSUE_URL, Dumps(json_data)>>),
                              "send_request", calls)
    ELSE Returned([code |-> status_code, data |-> json_data], calls)

\* Lines 125-155: what send_request does with the response of its HTTP call.
HandleResponse(response, calls) ==
    LET json_data == ResponseJson(response)
    IN  IF json_data = Invalid
        THEN Raised("APIException",
                    Msg("REST API service did not return JSON",
                        <<ISSUE_URL, BodyExcerpt(response.content)>>),
                    "send_request", calls)
        ELSE ErrorHandling(response.status_code, json_data, calls)

\* send_request(path, json_data, method) against a transport that answers t.  An
\* exception raised by the HTTP call is not caught here: it propagates as it is.
SendRequest(method, t) ==
    LET calls == TransportInvocations(method, t)
    IN  IF method \notin HTTP_METHODS
        THEN Raised("ValueError", Msg("Invalid HTTP method", <<method>>), "send_request", calls)
        ELSE IF t.tag = "exception"
        THEN Raised(t.error.kind, t.error.msg, "requests", calls)
        ELSE HandleResponse(t.response, calls)

\* Lines 117-120: the payload put on the wire, json.dumps(json_data), for a POST.
NoPayload == <<>>

WirePayload(method, json_data) ==
    IF method = "POST" THEN Dumps(json_data) ELSE NoPayload

---------------------------------------------------------------------------
(* Connection.get_version, can_access_api, __init__ *)

\* Faulty variant: the returned tuple unpacked in the wrong order.
GetVersionSwapped(t) ==
    LET r == SendRequest("GET", t)
    IN  IF r.tag = "raise" THEN r ELSE Returned(JNum(r.value.code), r.calls)

\* get_version: send_request('/version'), a GET; the status code is dropped and
\* only the parsed body is handed on.
GetVersion(t) ==
    LET r == SendRequest("GET", t)
    IN  IF r.tag = "raise" THEN r ELSE Returned(r.value.data, r.calls)

\* can_access_api: every exception of get_version is re-raised as APIException
\* carrying str(e); the membership test runs in the else branch, outside the try.
CanAccessApi(t) ==
    LET r == GetVersion(t)
    IN  IF r.tag = "raise"
        THEN Raised("APIException",
                    Msg("An exception was raised when connecting to REST API",
                        <<[kind |-> r.kind, msg |-> r.msg]>>),
                    "can_access_api", r.calls)
        ELSE LET found == PyIn("version", r.value)
             IN  CASE found = "true"  -> Returned(TRUE, r.calls)
                   [] found = "false" ->
                        Raised("APIException",
                               Msg("Unexpected HTTP response when connecting to REST API", <<>>),
                               "can_access_api", r.calls)
                   [] OTHER ->
                        Raised("TypeError", Msg("argument is not iterable", <<>>),
                               "can_access_api", r.calls)

\* Connection(api_url): __init__ ends with can_access_api(); when that raises,
\* the constructor raises and the caller gets no object.
ConnectionInit(t) == CanAccessApi(t)

---------------------------------------------------------------------------
(* Connection.get_scans *)

\* Line 176, Scan(self, scan_id=scan_id, status=scan_status): the handle, as the
\* arguments get_scans constructs it with.
Scan(scan_id, status) == [scan_id |-> scan_id, status |-> status]

\* Lines 172-177: the loop over the descriptors, stopping at the first one whose
\* ['id'] or ['status'] raises.
RECURSIVE ScanInstances(_, _, _)
ScanInstances(scans, scan_instances, calls) ==
    IF scans = <<>> THEN Returned(scan_instances, calls)
    ELSE LET scan_json == Head(scans)
             id_ == PySubscript(scan_json, "id")
             status_ == PySubscript(scan_json, "status")
         IN  IF id_ # "ok"
             THEN Raised(id_, Msg("id", <<>>), "get_scans", calls)
             ELSE IF status_ # "ok"
             THEN Raised(status_, Msg("status", <<>>), "get_scans", calls)
             ELSE ScanInstances(Tail(scans),
                                Append(scan_instances,
                                       Scan(scan_json.fields["id"], scan_json.fields["status"])),
                                calls)

\* Faulty variant: the status code returned by send_request is not looked at.
CheckScansNoCode(code, data, calls) ==
    IF ~HasGet(data)
    THEN Raised("AttributeError", Msg("no attribute 'get'", <<>>), "get_scans", calls)
    ELSE LET scans == DictGet(data, "items")
         IN  IF scans = JNull
             THEN Raised("APIException",
                         Msg("Failed to retrieve scans, no items in JSON.", <<>>),
                         "get_scans", calls)
             ELSE IF ~PyIterable(scans)
             THEN Raised("TypeError", Msg("object is not iterable", <<>>), "get_scans", calls)
             ELSE ScanInstances(PyIter(scans), <<>>, calls)

\* Lines 163-170: the checks get_scans makes on what send_request returned.
CheckScans(code, data, calls) ==
    IF code # HTTP_OK
    THEN Raised("APIException",
                Msg("Failed to retrieve scans. Unexpected code", <<DecimalStr(code)>>),
                "get_scans", calls)
    ELSE IF ~HasGet(data)
    THEN Raised("AttributeError", Msg("no attribute 'get'", <<>>), "get_scans", calls)
    ELSE LET scans == DictGet(data, "items")
         IN  IF scans = JNull
             THEN Raised("APIException",
                         Msg("Failed to retrieve scans, no items in JSON.", <<>>),
                         "get_scans", calls)
             ELSE IF ~PyIterable(scans)
             THEN Raised("TypeError", Msg("object is not iterable", <<>>), "get_scans", calls)
             ELSE ScanInstances(PyIter(scans), <<>>, calls)

GetScans(t) ==
    LET r == SendRequest("GET", t)
    IN  IF r.tag = "raise" THEN r ELSE CheckScans(r.value.code, r.value.data, r.calls)

---------------------------------------------------------------------------
(* The state machine: a caller constructing connections and using them *)

Methods == HTTP_METHODS \cup {"PUT"}

PostBodies == {JNull, JObj([id |-> JNum(1)])}

NoLast ==
    [op |-> "none", method |-> "", sent |-> NoPayload, transport |-> NotInvoked,
     outcome |-> Returned(NoValue, 0)]

\* What the transport was asked: nothing when the operation made no call.
Seen(outcome, t) == IF outcome.calls > 0 THEN t ELSE NotInvoked

Init ==
    /\ conn = "none"
    /\ transportCalls = 0
    /\ validSends = 0
    /\ last = NoLast

\* c = Connection(api_url)
Construct ==
    /\ transportCalls < MaxCalls
    /\ \E t \in TransportOutcomes :
         LET r == ConnectionInit(t)
         IN  /\ conn' = IF r.tag = "return" THEN "connection" ELSE "none"
             /\ transportCalls' = transportCalls + r.calls
             /\ validSends' = validSends + 1
             /\ last' = [op |-> "construct", method |-> "GET", sent |-> NoPayload,
                         transport |-> Seen(r, t), outcome |-> r]

\* c.send_request(path, json_data, method) with a supported method
Send ==
    /\ conn = "connection"
    /\ transportCalls < MaxCalls
    /\ \E method \in HTTP_METHODS :
       \E json_data \in (IF method = "POST" THEN PostBodies ELSE {JNull}) :
       \E t \in TransportOutcomes :
         LET r == SendRequest(method, t)
         IN  /\ transportCalls' = transportCalls + r.calls
             /\ validSends' = validSends + 1
             /\ last' = [op |-> "send_request", method |-> method,
                         sent |-> WirePayload(method, json_data),
                         transport |-> Seen(r, t), outcome |-> r]
             /\ UNCHANGED conn

\* c.send_request(path, json_data, method) with any other method
SendInvalid ==
    /\ conn = "connection"
    /\ \E method \in Methods \ HTTP_METHODS :
       \E t \in TransportOutcomes :
         LET r == SendRequest(method, t)
         IN  /\ transportCalls' = transportCalls + r.calls
             /\ last' = [op |-> "send_request", method |-> method,
                         sent |-> WirePayload(method, JNull),
                         transport |-> Seen(r, t), outcome |-> r]
             /\ UNCHANGED <<conn, validSends>>

\* c.get_scans()
ListScans ==
    /\ conn = "connection"
    /\ transportCalls < MaxCalls
    /\ \E t \in TransportOutcomes :
         LET r == GetScans(t)
         IN  /\ transportCalls' = transportCalls + r.calls
             /\ validSends' = validSends + 1
             /\ last' = [op |-> "get_scans", method |-> "GET", sent |-> NoPayload,
                         transport |-> Seen(r, t), outcome |-> r]
             /\ UNCHANGED conn

Next == Construct \/ Send \/ SendInvalid \/ ListScans

Spec == Init /\ [][Next]_vars

---------------------------------------------------------------------------
(* Vocabulary of the properties *)

MappedStatuses == {HTTP_BAD_REQUEST, HTTP_FORBIDDEN, HTTP_NOT_FOUND}

\* The last operation got a response from the transport (the call did not raise).
Answered == last.transport.tag = "response"

LastStatus == last.transport.response.status_code

LastContent == last.transport.response.content

\* The body of the last response is the wire form of a JSON document.
LastParses == \E v \in JsonValues : Dumps(v) = LastContent

LastJson == CHOOSE v \in JsonValues : Dumps(v) = LastContent

\* The last operation was a send_request with a supported method.
ValidSend == last.op = "send_request" /\ last.method \in {"GET", "POST", "DELETE"}

HasKey(v, key) == v.kind = "object" /\ key \in DOMAIN v.fields

\* An object holding a `message` that is not null.
HasMessage(v) == HasKey(v, "message") /\ v.fields["message"] # JNull

\* An object holding `items` that is not null.
HasItems(v) == HasKey(v, "items") /\ v.fields["items"] # JNull

KindOfStatus(status) ==
    CASE status = 400 -> "BadRequestException"
      [] status = 403 -> "ForbiddenException"
      [] status = 404 -> "NotFoundException"

GenericFailure == last.outcome.tag = "raise" /\ last.outcome.kind = "APIException"

\* Reading a decimal numeral back.
RECURSIVE NumeralValue(_)
NumeralValue(digits) ==
    IF digits = <<>> THEN 0
    ELSE NumeralValue(SubSeq(digits, 1, Len(digits) - 1)) * 10
            + ((CHOOSE i \in 1..10 : DigitChar[i] = digits[Len(digits)]) - 1)

IsNumeral(x) ==
    /\ x # <<>>
    /\ \A i \in 1..Len(x) : \E d \in 1..10 : DigitChar[d] = x[i]

\* The message of the raised exception has the decimal numeral of n among the values
\* formatted into it.
MessageShowsNumber(n) ==
    /\ "args" \in DOMAIN last.outcome.msg
    /\ \E i \in 1..Len(last.outcome.msg.args) :
         LET a == last.outcome.msg.args[i]
         IN  IsNumeral(a) /\ NumeralValue(a) = n

\* Reading a bytes literal b'...' back into the bytes it denotes.
RECURSIVE Unescape(_)
Unescape(x) ==
    IF x = <<>> THEN <<>>
    ELSE IF Head(x) # "\\" THEN <<Head(x)>> \o Unescape(Tail(x))
    ELSE CASE x[2] = "\\" -> <<"\\">> \o Unescape(Drop(x, 2))
           [] x[2] = "n"  -> <<"<LF>">> \o Unescape(Drop(x, 2))
           [] x[2] = "x"  -> <<"<E9>">> \o Unescape(Drop(x, 4))

IsBytesLiteral(x) ==
    /\ Len(x) >= 3
    /\ x[1] = "b" /\ x[2] = "'" /\ x[Len(x)] = "'"

\* The message of the raised exception has, among the values formatted into it, a
\* bytes literal denoting exactly bs.
MessageShowsBytes(bs) ==
    /\ "args" \in DOMAIN last.outcome.msg
    /\ \E i \in 1..Len(last.outcome.msg.args) :
         LET a == last.outcome.msg.args[i]
         IN  IsBytesLiteral(a) /\ Unescape(SubSeq(a, 3, Len(a) - 1)) = bs

---------------------------------------------------------------------------
(* C1 *)

\* Python's `'version' in body` is true: an object with that key, a list holding the
\* string, or a string containing it.
VersionFound(v) ==
    \/ HasKey(v, "version")
    \/ v.kind = "array" /\ \E i \in 1..Len(v.elems) : v.elems[i] = JStr(KeyText.version)
    \/ v.kind = "string" /\ IsSubstring(KeyText.version, v.s)

\* C1 as stated, over the bodies its terms speak of (JSON objects, or no JSON at all):
\* construction succeeds, and the caller holds a Connection, if and only if the
\* version-check GET was answered with status 200 and a body containing `version`.
C1_AsStated ==
    (last.op = "construct" /\ ((Answered /\ LastParses) => LastJson.kind = "object")) =>
        /\ (last.outcome.tag = "return") <=>
              (Answered /\ LastStatus = 200 /\ LastParses /\ HasKey(LastJson, "version"))
        /\ (conn = "connection") <=> (last.outcome.tag = "return")

\* C1 (amended): construction succeeds, and the caller holds a Connection, if and only
\* if the version-check GET was answered with a JSON body under a status other than
\* 400, 403 and 404 (200 is not required) and `'version' in body` is true; in every
\* other case construction raises and the caller holds no Connection.
C1_ConstructionIffVersionFound ==
    last.op = "construct" =>
        /\ (last.outcome.tag = "return") <=>
              (/\ Answered
               /\ LastParses
               /\ LastStatus \notin MappedStatuses
               /\ VersionFound(LastJson))
        /\ (conn = "connection") <=> (last.outcome.tag = "return")

\* A Connection was returned although the version check was answered with status 500.
C1_Witness ==
    /\ last.op = "construct"
    /\ conn = "connection"
    /\ Answered /\ LastStatus = 500
    /\ HasKey(LastJson, "version")

---------------------------------------------------------------------------
(* C2 *)

\* C2: a response with status 400, 403 or 404 whose JSON body holds a `message` makes
\* send_request raise the kind mapped to that status (400 BadRequest, 403 Forbidden,
\* 404 NotFound) carrying exactly that message; no (status, body) tuple is returned.
C2_MappedErrorCarriesMessage ==
    (ValidSend /\ Answered /\ LastStatus \in MappedStatuses /\ LastParses
        /\ HasMessage(LastJson)) =>
            /\ last.outcome.tag = "raise"
            /\ last.outcome.kind = KindOfStatus(LastStatus)
            /\ last.outcome.msg = LastJson.fields["message"]

\* A 403 with a message was raised as Forbidden.
C2_Witness ==
    /\ ValidSend /\ Answered /\ LastStatus = 403 /\ LastParses
    /\ HasMessage(LastJson)
    /\ last.outcome.kind = "ForbiddenException"
    /\ last.outcome.msg = JStr(TextGone)

---------------------------------------------------------------------------
(* C3 *)

\* C3: a response with status 400, 403 or 404 whose JSON body lacks `message`, whatever
\* the shape of that JSON value, makes send_request raise the Generic API failure with
\* a message containing the numeric status code.
C3_MissingMessageIsGeneric ==
    (ValidSend /\ Answered /\ LastStatus \in MappedStatuses /\ LastParses
        /\ ~HasMessage(LastJson)) =>
            /\ GenericFailure
            /\ MessageShowsNumber(LastStatus)

---------------------------------------------------------------------------
(* C4 *)

\* C4: a response whose body is not valid JSON, whatever its status code, makes
\* send_request raise the Generic API failure with a message showing the first 20
\* bytes of the raw body; the status-code mapping is not applied to it.
C4_NotJsonIsGeneric ==
    (ValidSend /\ Answered /\ ~LastParses) =>
        /\ GenericFailure
        /\ last.outcome.by = "send_request"
        /\ MessageShowsBytes(SubSeq(LastContent, 1, Min(20, Len(LastContent))))

\* A 404 with an HTML body longer than 20 bytes was raised as the Generic failure.
C4_Witness ==
    /\ ValidSend /\ Answered /\ ~LastParses
    /\ LastStatus = 404
    /\ Len(LastContent) > 20
    /\ GenericFailure

---------------------------------------------------------------------------
(* C5 *)

\* C5: a send_request with a method outside {GET, POST, DELETE} fails with the
\* invalid-method error and leaves the count of transport invocations unchanged.
C5_InvalidMethodMakesNoCall ==
    [][ (last'.op = "send_request" /\ last'.method \notin {"GET", "POST", "DELETE"}) =>
            /\ transportCalls' = transportCalls
            /\ last'.outcome.tag = "raise"
            /\ last'.outcome.kind = "ValueError"
            /\ last'.transport = NotInvoked ]_vars

\* A PUT was refused after the transport had already been used.
C5_Witness ==
    /\ last.op = "send_request" /\ last.method = "PUT"
    /\ last.outcome.kind = "ValueError"
    /\ transportCalls > 0

---------------------------------------------------------------------------
(* C6 *)

\* C6: when the HTTP call of send_request fails at the transport level, send_request
\* raises the Generic API failure with the cause's description embedded; no raw
\* transport exception escapes.
C6_TransportFailureIsGeneric ==
    (ValidSend /\ last.transport.tag = "exception") =>
        /\ GenericFailure
        /\ "args" \in DOMAIN last.outcome.msg
        /\ \E i \in 1..Len(last.outcome.msg.args) :
             last.outcome.msg.args[i] = last.transport.error.msg

---------------------------------------------------------------------------
(* C7 *)

\* C7: a response with a JSON body and a status code other than 400, 403 and 404 makes
\* send_request return (status_code, parsed body): the status of the response, and a
\* value whose JSON text is the body of the response.
C7_UnmappedStatusReturns ==
    (ValidSend /\ Answered /\ LastParses /\ LastStatus \notin MappedStatuses) =>
        /\ last.outcome.tag = "return"
        /\ last.outcome.value.code = LastStatus
        /\ Dumps(last.outcome.value.data) = LastContent

\* A 500 with a JSON body was returned to the caller.
C7_Witness ==
    /\ ValidSend /\ Answered /\ LastParses
    /\ LastStatus = 500
    /\ last.outcome.tag = "return"
    /\ last.outcome.value.code = 500

---------------------------------------------------------------------------
(* C8 *)

\* C8: whenever construction fails the caller receives the Generic API failure, and
\* every parsed body without a `version` key (a number, a string and an array
\* included) is such a failure.
C8_ConstructionFailsGeneric ==
    last.op = "construct" =>
        /\ (last.outcome.tag = "raise" => last.outcome.kind = "APIException")
        /\ (Answered /\ LastParses /\ ~HasKey(LastJson, "version")) => GenericFailure

---------------------------------------------------------------------------
(* C9 *)

\* The descriptors of a body are objects that each carry id and status.
WellFormedItems(v) ==
    /\ HasItems(v)
    /\ v.fields["items"].kind = "array"
    /\ \A i \in 1..Len(v.fields["items"].elems) :
         /\ HasKey(v.fields["items"].elems[i], "id")
         /\ HasKey(v.fields["items"].elems[i], "status")

\* The returned handles are the descriptors' (id, status) pairs, in order.
HandlesMatch(handles, v) ==
    LET descriptors == v.fields["items"].elems
    IN  /\ Len(handles) = Len(descriptors)
        /\ \A i \in 1..Len(descriptors) :
             /\ handles[i].scan_id = descriptors[i].fields["id"]
             /\ handles[i].status = descriptors[i].fields["status"]

---------------------------------------------------------------------------
(* C10 *)

\* C10: every operation that issues a send_request with a supported method (a direct
\* send, a construction, a get_scans) makes exactly one transport invocation whatever
\* its outcome, so the transport has been invoked as often as such sends were issued.
C10_OneCallPerSend ==
    /\ transportCalls = validSends
    /\ (last.op \in {"construct", "get_scans"} \/ ValidSend) =>
          (last.outcome.calls = 1 /\ last.transport # NotInvoked)

\* Three sends were issued and the last one failed in the transport.
C10_Witness ==
    /\ validSends = 3
    /\ transportCalls = 3
    /\ last.transport.tag = "exception"
    /\ last.outcome.tag = "raise"

===========================================================================
